---- MODULE Spec2Model ----
(***************************************************************************)
(* Model of src/src/Basics.cpp: a menu loop (main) dispatching to twelve   *)
(* demonstration routines that exercise a dense matrix library, and the    *)
(* matrix operations those routines call (construction, comma             *)
(* initialisation, resize, conservativeResize, assignment, products,       *)
(* noalias accumulation, minCoeff/maxCoeff).                               *)
(*                                                                         *)
(* Matrices are records [rows, cols, order, data]; data is the coefficient *)
(* buffer, a sequence of length rows*cols laid out in the storage order    *)
(* of the matrix (column-major by default, Basics.cpp:78).                 *)
(*                                                                         *)
(* The header of Basics.cpp (lines 14-20) states how illegal operations    *)
(* behave: with run-time assertions enabled ("debug mode") the program     *)
(* aborts at the call; with assertions turned off the behaviour is         *)
(* undefined ("it will probably crash").  The build flavour is the         *)
(* variable assertsOn, fixed at start-up.                                  *)
(***************************************************************************)
EXTENDS Integers, Sequences, FiniteSets, TLC

\* ---------------------------------------------------------------- bounds
\* longest standard input, in tokens
MaxInput == 2
\* largest selector value typed on standard input
MaxSel == 22

\* largest row or column count of a matrix
MaxDim == 3
\* largest coefficient count of a matrix
MaxSize == 6

\* largest row or column count of a product operand
MaxProdDim == 2
\* most coefficients held by the operands and the destination of a product
MaxProdCoeffs == 8
\* largest coefficient value of a product operand
MaxVal == 1

\* longest comma list
MaxList == 7

\* largest row or column count, and coefficient count, of a reduced matrix
MaxRedDim == 4
MaxRedSize == 4
\* largest coefficient value of a reduced matrix
MaxCoeff == 4

VARIABLES
    assertsOn,  \* build flavour: TRUE = run-time assertions enabled (Basics.cpp:18-20)
    pc,         \* position of main: "read", "switch", "demo", "done", "aborted", "crashed"
    val,        \* main's local `unsigned int val` (Basics.cpp:197)
    cin,        \* standard input: [buf: remaining tokens, fail: failbit set]
    called,     \* number of the demo routine invoked for the current read, 0 = none
    a,          \* the matrix operated on (matr, mat, a ... of the routines)
    b,          \* a second operand (b, u, w ...)
    c,          \* the destination of the accumulated product (c)
    list,       \* the values of the last comma list (`matr << 1, 2, 3, 4`)
    res,        \* what the last checked operation produced: [status, value]
    last        \* the last matrix operation: [op, rows, cols, oldRows, oldCols]

mainVars == <<pc, val, cin, called>>
matVars == <<a, b, c, list, res, last>>
vars == <<assertsOn, pc, val, cin, called, a, b, c, list, res, last>>

\* ------------------------------------------------------------ main (196-261)

\* A token of standard input: a decimal number, or text that is no number.
Num(n) == [kind |-> "num", n |-> n]
Text == [kind |-> "text", n |-> 0]
Tokens == {Num(n) : n \in 0..MaxSel} \cup {Text}

RECURSIVE SeqsUpTo(_, _)
SeqsUpTo(S, n) ==
    IF n = 0 THEN {<<>>}
    ELSE LET shorter == SeqsUpTo(S, n - 1)
         IN  shorter \cup {Append(s, x) : s \in {t \in shorter : Len(t) = n - 1}, x \in S}

\* selectors with a case label in the switch (Basics.cpp:205-256)
FirstDemo == 1
LastDemo == 12
LastCase == 20
\* the routine whose body constructs Matrix<double, 3, Dynamic>(1, 5) (Basics.cpp:72-84)
MatrixTemplateClass == 6

\* `unsigned int val = 0;` and an unread standard input
InitMain ==
    /\ pc = "read"
    /\ val = 0
    /\ cin \in {[buf |-> s, fail |-> FALSE] : s \in SeqsUpTo(Tokens, MaxInput)}
    /\ called = 0

\* `std::cin >> val` (Basics.cpp:201).  The extraction is attempted only when the
\* stream is good and a token is left; otherwise the sentry fails, failbit is
\* set and val keeps its value.  A token that is no number stores 0 in val and
\* sets failbit.
ExtractVal ==
    IF cin.fail \/ cin.buf = <<>>
    THEN [v |-> val, in |-> [cin EXCEPT !.fail = TRUE]]
    ELSE LET t == Head(cin.buf)
         IN  IF t.kind = "num"
             THEN [v |-> t.n, in |-> [cin EXCEPT !.buf = Tail(cin.buf)]]
             ELSE [v |-> 0, in |-> [buf |-> Tail(cin.buf), fail |-> TRUE]]

\* Basics.cpp:200-202: prompt, read the selector, print the rule
Read ==
    /\ pc = "read"
    /\ val' = ExtractVal.v
    /\ cin' = ExtractVal.in
    /\ called' = 0
    /\ pc' = "switch"
    /\ UNCHANGED <<assertsOn, matVars>>

\* the case label the switch jumps to (Basics.cpp:204-259):
\* the routine's number, 0 for the empty cases 13..20, -1 for default
SwitchTarget(n) ==
    IF n \in FirstDemo..LastDemo THEN n
    ELSE IF n \in (LastDemo + 1)..LastCase THEN 0
    ELSE -1

\* Basics.cpp:204-259: switch(val)
Dispatch ==
    /\ pc = "switch"
    /\ LET t == SwitchTarget(val)
       IN  /\ pc' = IF t > 0 THEN "demo" ELSE IF t = 0 THEN "read" ELSE "done"
           /\ called' = IF t > 0 THEN t ELSE 0
    /\ UNCHANGED <<assertsOn, val, cin, matVars>>

\* How a demo routine ends.  Routine 6 constructs Matrix<double, 3, Dynamic>
\* with a run-time row count of 1 (Basics.cpp:82): an illegal operation, which
\* aborts with assertions enabled and is undefined otherwise (Basics.cpp:18-20).
\* Every other routine returns to the loop.
DemoOutcomes(n) ==
    IF n = MatrixTemplateClass
    THEN IF assertsOn THEN {"aborted"} ELSE {"read", "crashed"}
    ELSE {"read"}

\* the body of the selected routine, then `break`
RunDemo ==
    /\ pc = "demo"
    /\ pc' \in DemoOutcomes(called)
    /\ UNCHANGED <<assertsOn, val, cin, called, matVars>>

\* C9: each successfully read selector n is handled once: n in 1..12 invokes
\* routine n and no other, n in 13..20 invokes none, and in both cases the
\* loop then reads again; any other selector makes main return without
\* invoking a routine.
C9_EverySelectorHandledThenReadAgain ==
    [][/\ (pc = "switch" /\ ~cin.fail) =>
            /\ val \in 1..12 => (pc' = "demo" /\ called' = val)
            /\ val \in 13..20 => (pc' = "read" /\ called' = 0)
            /\ val \notin 1..20 => (pc' = "done" /\ called' = 0)
       /\ (pc = "demo" /\ ~cin.fail) => pc' = "read"]_vars

\* C10: once the input is exhausted or a read has failed, no further routine
\* is invoked and main returns: the switch that follows a failed read takes
\* the default label.
C10_MainReturnsAfterFailedRead ==
    cin.fail => (pc = "done" \/ (pc = "switch" /\ SwitchTarget(val) = -1))

\* ------------------------------------------------- the dense matrix type

\* storage orders: "0=Column-major(default), 1=Row-major" (Basics.cpp:78)
ColMajor == 0
RowMajor == 1

\* Coefficient values.  Construction, resizing and assignment only move
\* coefficients, never compute with them, so two distinguishable values show
\* every misplacement.
Scalar == {0, 1}

Mat(row, col, o, d) == [rows |-> row, cols |-> col, order |-> o, data |-> d]

\* m.size()
Size(m) == Len(m.data)

\* position of coefficient (r, c), zero-based, in the buffer (one-based)
Index(o, rows, cols, row, col) ==
    IF o = RowMajor THEN row * cols + col + 1 ELSE col * rows + row + 1

\* m(r, c)
Coeff(m, row, col) == m.data[Index(m.order, m.rows, m.cols, row, col)]

\* row and column of buffer position i (one-based)
RowOf(o, rows, cols, i) ==
    IF o = RowMajor THEN (i - 1) \div cols ELSE (i - 1) % rows
ColOf(o, rows, cols, i) ==
    IF o = RowMajor THEN (i - 1) % cols ELSE (i - 1) \div rows

\* the shapes within the bounds
Shapes == {s \in (0..MaxDim) \X (0..MaxDim) : s[1] * s[2] <= MaxSize}

\* A freshly allocated buffer of n coefficients: its values are indeterminate.
Uninit(n) == [1..n -> Scalar]

\* the matrix nothing has acted on yet
NoMat == Mat(0, 0, ColMajor, <<>>)
NoRes == [status |-> "none", value |-> NoMat]
NoOp == [op |-> "none", rows |-> 0, cols |-> 0, oldRows |-> 0, oldCols |-> 0]
Op(name, row, col, m) ==
    [op |-> name, rows |-> row, cols |-> col, oldRows |-> m.rows, oldCols |-> m.cols]

\* `MatrixXd matr(2, 3);` (Basics.cpp:87): r*c coefficients, values indeterminate
Constructed(row, col, o, fresh) == Mat(row, col, o, fresh)

\* a resize that changes the dimensions and never reallocates
ResizedKeepingBuffer(m, row, col, fresh) == Mat(row, col, m.order, m.data)

\* `matr.resize(3, 5);` (Basics.cpp:88): the buffer is reallocated when the
\* coefficient count changes ("the values of the coefficients may change") and
\* kept as it is otherwise.
Resized(m, row, col, fresh) ==
    Mat(row, col, m.order, IF row * col = Size(m) THEN m.data ELSE fresh)

\* a conservative resize that always reallocates in place, whatever the shape
ConservativeResizedByRealloc(m, row, col, fresh) ==
    Mat(row, col, m.order,
        [i \in 1..(row * col) |-> IF i <= Size(m) THEN m.data[i] ELSE fresh[i]])

\* `matr.conservativeResize(5, 4);` (Basics.cpp:89): nothing to do for equal
\* dimensions; when the inner dimension is kept the buffer is reallocated in
\* place, keeping its leading coefficients; otherwise a new matrix is
\* allocated, the common top-left block is copied into it, and it replaces the
\* old one.
ConservativeResized(m, row, col, fresh) ==
    IF m.rows = row /\ m.cols = col THEN m
    ELSE IF (m.order = RowMajor /\ m.cols = col) \/ (m.order = ColMajor /\ m.rows = row)
    THEN Mat(row, col, m.order,
             [i \in 1..(row * col) |-> IF i <= Size(m) THEN m.data[i] ELSE fresh[i]])
    ELSE LET commonRows == IF row < m.rows THEN row ELSE m.rows
             commonCols == IF col < m.cols THEN col ELSE m.cols
         IN  Mat(row, col, m.order,
                 [i \in 1..(row * col) |->
                     LET rr == RowOf(m.order, row, col, i)
                         cc == ColOf(m.order, row, col, i)
                     IN  IF rr < commonRows /\ cc < commonCols
                         THEN Coeff(m, rr, cc)
                         ELSE fresh[i]])

\* `matr = matr2;` (Basics.cpp:94): "matr is resized" to the source's
\* dimensions, then every coefficient is copied.
Assigned(m, src, fresh) ==
    LET dst == Resized(m, src.rows, src.cols, fresh)
    IN  Mat(dst.rows, dst.cols, dst.order,
            [i \in 1..Size(dst) |->
                Coeff(src, RowOf(dst.order, dst.rows, dst.cols, i),
                           ColOf(dst.order, dst.rows, dst.cols, i))])

\* `matr(0, 1) = 2;` (Basics.cpp:32-35)
CoeffSet(m, row, col, v) ==
    [m EXCEPT !.data[Index(m.order, m.rows, m.cols, row, col)] = v]

\* ------------------------------------- resizing_and_assigning (86-95)

\* the rest of the program while a routine's matrix code runs
InRoutine(n) ==
    /\ pc = "demo"
    /\ val = n
    /\ called = n
    /\ cin = [buf |-> <<>>, fail |-> FALSE]


\* Basics.cpp:87
InitResize ==
    /\ assertsOn = TRUE
    /\ InRoutine(7)
    /\ \E s \in Shapes : \E d \in Uninit(s[1] * s[2]) :
           /\ a = Constructed(s[1], s[2], ColMajor, d)
           /\ last = Op("construct", s[1], s[2], NoMat)
    /\ b = NoMat
    /\ c = NoMat
    /\ list = <<>>
    /\ res = NoRes

\* Basics.cpp:88
Resize ==
    /\ \E s \in Shapes : \E d \in Uninit(s[1] * s[2]) :
           /\ a' = Resized(a, s[1], s[2], d)
           /\ last' = Op("resize", s[1], s[2], a)
    /\ UNCHANGED <<assertsOn, mainVars, b, c, list, res>>

\* Basics.cpp:89
ConservativeResize ==
    /\ \E s \in Shapes : \E d \in Uninit(s[1] * s[2]) :
           /\ a' = ConservativeResized(a, s[1], s[2], d)
           /\ last' = Op("conservativeResize", s[1], s[2], a)
    /\ UNCHANGED <<assertsOn, mainVars, b, c, list, res>>

\* Basics.cpp:93-94: a second matrix is constructed and assigned.  The buffer
\* the destination is resized to is overwritten whole by the copy, so one
\* representative of its indeterminate values is enough.
Assign ==
    /\ \E s \in Shapes : \E d \in Uninit(s[1] * s[2]) :
           LET matr2 == Constructed(s[1], s[2], ColMajor, d)
           IN  /\ a' = Assigned(a, matr2, [i \in 1..(s[1] * s[2]) |-> 0])
               /\ last' = Op("assign", matr2.rows, matr2.cols, a)
    /\ UNCHANGED <<assertsOn, mainVars, b, c, list, res>>

\* Basics.cpp:32-35
SetCoeff ==
    /\ \E row \in 0..(a.rows - 1), col \in 0..(a.cols - 1), v \in Scalar :
           a' = CoeffSet(a, row, col, v)
    /\ UNCHANGED <<assertsOn, mainVars, b, c, list, res, last>>

NextResize ==
    \/ Resize
    \/ ConservativeResize
    \/ Assign
    \/ SetCoeff

SpecResize == InitResize /\ [][NextResize]_vars

Min(x, y) == IF x < y THEN x ELSE y

\* C1: after any sequence of construct, resize, conservativeResize and
\* assignment, the coefficient count of the matrix is rows * cols, and rows and
\* cols are the arguments of the most recent construct/resize, or the
\* dimensions of the most recently assigned source.
C1_SizeIsRowsTimesCols ==
    /\ Size(a) = a.rows * a.cols
    /\ a.rows = last.rows
    /\ a.cols = last.cols

\* a 2x3 matrix conservatively resized to 3x1 reports 3 coefficients
C1_Witness ==
    /\ last.op = "conservativeResize"
    /\ last.oldRows = 2 /\ last.oldCols = 3
    /\ a.rows = 3 /\ a.cols = 1 /\ Size(a) = 3

\* C2: conservativeResize(newRows, newCols) leaves every coefficient (r, c)
\* with r < min(oldRows, newRows) and c < min(oldCols, newCols) at its value
\* before the call.
C2_ConservativeResizeKeepsCommonBlock ==
    [][(last' # last /\ last'.op = "conservativeResize") =>
          \A row \in 0..(Min(a.rows, a'.rows) - 1), col \in 0..(Min(a.cols, a'.cols) - 1) :
              Coeff(a', row, col) = Coeff(a, row, col)]_vars

\* a 2x3 matrix conservatively resized to 3x2, its kept block not uniform
C2_Witness ==
    /\ last.op = "conservativeResize"
    /\ last.oldRows = 2 /\ last.oldCols = 3
    /\ a.rows = 3 /\ a.cols = 2
    /\ Coeff(a, 0, 0) # Coeff(a, 0, 1)
    /\ Coeff(a, 0, 0) # Coeff(a, 1, 0)

\* ------------------------------ illegal operations (Basics.cpp:14-20)

\* assertions that are compiled out whatever the build
EigenAssertCompiledOut(ok) == IF ok THEN "ok" ELSE "undefined"

\* How a call whose validity the library checks at run time ends: it goes on
\* when the condition holds; otherwise the program aborts at the call when
\* assertions are enabled, and the behaviour is undefined when they are off.
EigenAssert(ok) ==
    IF ok THEN "ok" ELSE IF assertsOn THEN "aborted" ELSE "undefined"

\* What undefined behaviour can do: go on with an indeterminate result, or crash.
UndefinedStatus == {"undefined", "crashed"}

\* where main is after a call that ended with status st
PcAfter(st) ==
    IF st = "aborted" THEN "aborted" ELSE IF st = "crashed" THEN "crashed" ELSE pc

\* ------------------- multiplication_division, transposition_conjugation

\* coefficient values of the operands
Entries == 0..MaxVal

\* The buffers an operation with undefined behaviour may leave: their values
\* are indeterminate and nothing below depends on them, so one buffer per
\* value stands for them.
Indeterminate(n) == {[i \in 1..n |-> g] : g \in Entries}

\* the matrices in scope, by name: an expression names its operands
Env == [a |-> a, b |-> b, c |-> c]

\* sum over k >= from of x(row, k) * y(k, col); the inner dimension is x.cols
RECURSIVE DotFrom(_, _, _, _, _)
DotFrom(x, y, row, col, from) ==
    IF from >= x.cols THEN 0
    ELSE Coeff(x, row, from) * Coeff(y, from, col) + DotFrom(x, y, row, col, from + 1)

\* a product is legal when the inner dimensions agree, compared by columns only
ProductDimsOkByCols(x, y) == x.cols = y.cols

\* `mat*u` (Basics.cpp:128-132): a product is legal when x.cols = y.rows
ProductDimsOk(x, y) == x.cols = y.rows

\* the value of x * y evaluated into a temporary: x.rows by y.cols
Product(x, y) ==
    Mat(x.rows, y.cols, ColMajor,
        [i \in 1..(x.rows * y.cols) |->
            DotFrom(x, y, RowOf(ColMajor, x.rows, y.cols, i),
                          ColOf(ColMajor, x.rows, y.cols, i), 0)])

\* `m1 += m2;` (Basics.cpp:106): coefficient-wise, equal dimensions
PlusAssigned(m, t) ==
    Mat(m.rows, m.cols, m.order,
        [i \in 1..Size(m) |->
            m.data[i] + Coeff(t, RowOf(m.order, m.rows, m.cols, i),
                                 ColOf(m.order, m.rows, m.cols, i))])

\* The product env[lhs] * env[rhs] evaluated straight into env[dst], one
\* coefficient after the other in storage order from buffer position i on, each
\* read of an operand seeing what has been written so far.  With accumulate the
\* coefficient is added to the one already there (+=), else it replaces it.
RECURSIVE EvalProductInto(_, _, _, _, _, _)
EvalProductInto(env, dst, lhs, rhs, accumulate, i) ==
    IF i > Size(env[dst]) THEN env
    ELSE LET d == env[dst]
             dot == DotFrom(env[lhs], env[rhs],
                            RowOf(d.order, d.rows, d.cols, i),
                            ColOf(d.order, d.rows, d.cols, i), 0)
             v == IF accumulate THEN d.data[i] + dot ELSE dot
         IN  EvalProductInto([env EXCEPT ![dst].data[i] = v],
                             dst, lhs, rhs, accumulate, i + 1)

\* an assignment of a product that is evaluated straight into the destination
AssignProductInPlace(env, dst, lhs, rhs) ==
    EvalProductInto(env, dst, lhs, rhs, FALSE, 1)

\* `mat = mat*mat;` (Basics.cpp:133): a product is assumed to alias its
\* destination, so it is evaluated into a temporary, which is then assigned.
AssignProduct(env, dst, lhs, rhs) ==
    LET tmp == Product(env[lhs], env[rhs])
    IN  [env EXCEPT ![dst] = Assigned(env[dst], tmp, [i \in 1..Size(tmp) |-> 0])]

\* a noalias accumulation that overwrites the destination
NoaliasAssignProduct(env, dst, lhs, rhs) ==
    EvalProductInto(env, dst, lhs, rhs, FALSE, 1)

\* `c.noalias() += a * b;` (Basics.cpp:150): no temporary, the product is
\* accumulated straight into the destination
NoaliasAddProduct(env, dst, lhs, rhs) ==
    EvalProductInto(env, dst, lhs, rhs, TRUE, 1)

ProdShapes == (0..MaxProdDim) \X (0..MaxProdDim)

\* operands a and b of any shapes, and a destination c shaped like a * b
InitProduct ==
    /\ assertsOn \in BOOLEAN
    /\ InRoutine(9)
    /\ \E sa \in ProdShapes, sb \in ProdShapes :
           /\ sa[1] * sa[2] + sb[1] * sb[2] + sa[1] * sb[2] <= MaxProdCoeffs
           /\ a \in {Mat(sa[1], sa[2], ColMajor, d) : d \in [1..(sa[1] * sa[2]) -> Entries]}
           /\ b \in {Mat(sb[1], sb[2], ColMajor, d) : d \in [1..(sb[1] * sb[2]) -> Entries]}
           /\ c \in {Mat(sa[1], sb[2], ColMajor, d) : d \in [1..(sa[1] * sb[2]) -> Entries]}
    /\ list = <<>>
    /\ res = NoRes
    /\ last = NoOp

\* `std::cout << mat*u` (Basics.cpp:128-132) for run-time shapes: a * b
Multiply ==
    /\ pc = "demo" /\ last.op = "none"
    /\ LET st == EigenAssert(ProductDimsOk(a, b))
       IN  \/ /\ st = "ok"
              /\ res' = [status |-> "ok", value |-> Product(a, b)]
              /\ pc' = pc
           \/ /\ st = "aborted"
              /\ res' = [status |-> "aborted", value |-> NoMat]
              /\ pc' = PcAfter("aborted")
           \/ /\ st = "undefined"
              /\ \/ \E d \in Indeterminate(a.rows * b.cols) :
                       /\ res' = [status |-> "undefined",
                                  value |-> Mat(a.rows, b.cols, ColMajor, d)]
                       /\ pc' = pc
                 \/ /\ res' = [status |-> "crashed", value |-> NoMat]
                    /\ pc' = PcAfter("crashed")
    /\ last' = Op("multiply", a.rows, b.cols, a)
    /\ UNCHANGED <<assertsOn, val, cin, called, a, b, c, list>>

\* `mat = mat*mat;` (Basics.cpp:133), mat square
MultiplyAssignSelf ==
    /\ pc = "demo" /\ last.op = "none"
    /\ a.rows = a.cols
    /\ LET e == AssignProduct(Env, "a", "a", "a")
       IN  /\ a' = e.a
           /\ b' = e.b
           /\ c' = e.c
    /\ res' = [status |-> "ok", value |-> NoMat]
    /\ last' = Op("assignProduct", a.rows, a.cols, a)
    /\ UNCHANGED <<assertsOn, mainVars, list>>

\* `c.noalias() += a * b;` (Basics.cpp:150)
NoaliasAccumulate ==
    /\ pc = "demo" /\ last.op = "none"
    /\ LET st == EigenAssert(ProductDimsOk(a, b))
       IN  \/ /\ st = "ok"
              /\ LET e == NoaliasAddProduct(Env, "c", "a", "b")
                 IN  /\ a' = e.a
                     /\ b' = e.b
                     /\ c' = e.c
              /\ res' = [status |-> "ok", value |-> NoMat]
              /\ pc' = pc
           \/ /\ st = "aborted"
              /\ res' = [status |-> "aborted", value |-> NoMat]
              /\ pc' = PcAfter("aborted")
              /\ UNCHANGED <<a, b, c>>
           \/ /\ st = "undefined"
              /\ \/ \E d \in Indeterminate(Size(c)) :
                       /\ c' = [c EXCEPT !.data = d]
                       /\ res' = [status |-> "undefined", value |-> NoMat]
                       /\ pc' = pc
                 \/ /\ res' = [status |-> "crashed", value |-> NoMat]
                    /\ pc' = PcAfter("crashed")
                    /\ c' = c
              /\ UNCHANGED <<a, b>>
    /\ last' = Op("noaliasAdd", c.rows, c.cols, c)
    /\ UNCHANGED <<assertsOn, val, cin, called, list>>

NextProduct ==
    \/ Multiply
    \/ MultiplyAssignSelf
    \/ NoaliasAccumulate

SpecProduct == InitProduct /\ [][NextProduct]_vars

\* C3 as claimed: a * b fails whenever a.cols # b.rows, and succeeds with an
\* a.rows by b.cols result whenever a.cols = b.rows.
C3_MismatchedProductAlwaysFails ==
    last.op = "multiply" =>
        /\ a.cols # b.rows => res.status = "aborted"
        /\ a.cols = b.rows =>
               (res.status = "ok" /\ res.value.rows = a.rows /\ res.value.cols = b.cols)

\* C3 amended: a * b with a.cols = b.rows succeeds with an a.rows by b.cols
\* result; with a.cols # b.rows it aborts at the product when run-time
\* assertions are enabled, and never yields a defined result.
C3_ProductDimensionCheck ==
    last.op = "multiply" =>
        /\ a.cols = b.rows =>
               (res.status = "ok" /\ res.value.rows = a.rows /\ res.value.cols = b.cols
                /\ Size(res.value) = a.rows * b.cols)
        /\ (a.cols # b.rows /\ assertsOn) => (res.status = "aborted" /\ pc = "aborted")
        /\ a.cols # b.rows => res.status # "ok"

\* a 2x1 matrix times a 2x1 matrix, assertions enabled: aborted
C3_Witness ==
    /\ last.op = "multiply" /\ assertsOn
    /\ a.rows = 2 /\ a.cols = 1 /\ b.rows = 2 /\ b.cols = 1
    /\ res.status = "aborted"

\* C4: after mat = mat * mat, mat is M.M computed from the value M that mat
\* held before the statement.
C4_SelfProductFromOldValues ==
    [][(last.op = "none" /\ last'.op = "assignProduct") =>
          /\ a'.rows = a.rows /\ a'.cols = a.cols
          /\ \A row \in 0..(a.rows - 1), col \in 0..(a.cols - 1) :
                 Coeff(a', row, col) = DotFrom(a, a, row, col, 0)]_vars

\* [[1,1],[1,0]] squared: [[2,1],[1,1]]
C4_Witness ==
    /\ last.op = "assignProduct"
    /\ a.rows = 2 /\ a.cols = 2
    /\ Coeff(a, 0, 0) = 2 /\ Coeff(a, 0, 1) = 1 /\ Coeff(a, 1, 0) = 1 /\ Coeff(a, 1, 1) = 1

\* C5: for a, b, c of compatible shapes, c.noalias() += a * b leaves c as
\* computing t = a * b into a temporary and then c += t does, and leaves a and
\* b unchanged.
C5_NoaliasEqualsTemporary ==
    [][(last.op = "none" /\ last'.op = "noaliasAdd" /\ a.cols = b.rows) =>
          /\ c' = PlusAssigned(c, Product(a, b))
          /\ a' = a
          /\ b' = b]_vars

\* a 2x2 times 2x1 product accumulated into a 2x1 c: c(0,0) = 1 + (1*1 + 1*1)
C5_Witness ==
    /\ last.op = "noaliasAdd" /\ res.status = "ok"
    /\ a.rows = 2 /\ a.cols = 2 /\ b.cols = 1
    /\ Coeff(c, 0, 0) = 3 /\ Coeff(c, 1, 0) = 0

\* ------------- checked operations: simple_matrix, matrix_template_class,
\* ------------- reduction_ops

\* the statuses a checked call can end with
Outcomes(ok) ==
    IF EigenAssert(ok) = "undefined" THEN UndefinedStatus ELSE {EigenAssert(ok)}

\* The rest of `matr << 1, 2, 3, 4;`: the values s[i], s[i+1], ... are inserted
\* after position (row, col - 1); the insertion point wraps to the next row at
\* the end of a row, and each value is written with m(row, col) = value.
\* Inserting past the last row or column is illegal; the walk stops there.
RECURSIVE CommaWalk(_, _, _, _, _)
CommaWalk(m, s, i, row, col) ==
    IF i > Len(s) THEN [m |-> m, row |-> row, col |-> col, ok |-> TRUE]
    ELSE LET wrap == col = m.cols
             r2 == IF wrap THEN row + 1 ELSE row
             c2 == IF wrap THEN 0 ELSE col
         IN  IF r2 < m.rows /\ c2 < m.cols
             THEN CommaWalk(CoeffSet(m, r2, c2, s[i]), s, i + 1, r2, c2 + 1)
             ELSE [m |-> m, row |-> r2, col |-> c2, ok |-> FALSE]

\* a comma initialisation that copies the list into the buffer as it is
CommaInitializedInStorageOrder(m, s) ==
    [m |-> [m EXCEPT !.data = [i \in 1..Size(m) |->
                                  IF i <= Len(s) THEN s[i] ELSE m.data[i]]],
     ok |-> Len(s) = Size(m)]

\* `matr << 1, 2, 3, 4;` (Basics.cpp:40): the first value goes to (0, 0) of a
\* matrix that must not be empty, the others follow in reading order, and when
\* the statement ends the last row and the last column must have been reached.
CommaInitialized(m, s) ==
    IF m.rows > 0 /\ m.cols > 0
    THEN LET w == CommaWalk(CoeffSet(m, 0, 0, s[1]), s, 2, 0, 1)
         IN  [m |-> w.m,
              ok |-> w.ok /\ (w.row + 1 = m.rows \/ m.cols = 0) /\ w.col = m.cols]
    ELSE [m |-> m, ok |-> FALSE]

\* the row count fixed at compile time in `Matrix<double, 3, Dynamic>` (Basics.cpp:82)
FixedRows == 3

\* `Matrix<double, 3, Dynamic> matr3(1, 5);` (Basics.cpp:82): the run-time row
\* count must be the fixed one, and no dimension may be negative
FixedRowsDimsOk(row, col) == row = FixedRows /\ row >= 0 /\ col >= 0

\* `matr(1, 0)` (Basics.cpp:35): the position must lie inside the matrix
InBounds(m, row, col) == row >= 0 /\ row < m.rows /\ col >= 0 /\ col < m.cols

\* sum of m(k, k) for from <= k < n
RECURSIVE DiagonalSum(_, _, _)
DiagonalSum(m, from, n) ==
    IF from >= n THEN 0 ELSE Coeff(m, from, from) + DiagonalSum(m, from + 1, n)

\* `mat.trace()` (Basics.cpp:172): "Sum of the diagonal coefficients", the same
\* as mat.diagonal().sum(); the diagonal has min(rows, cols) coefficients and
\* the shape is not checked
Trace(m) == DiagonalSum(m, 0, IF m.rows < m.cols THEN m.rows ELSE m.cols)

\* sum of the buffer from position i on
RECURSIVE SumFrom(_, _)
SumFrom(d, i) == IF i > Len(d) THEN 0 ELSE d[i] + SumFrom(d, i + 1)

\* `mat.mean()` (Basics.cpp:169): the sum over the coefficient count, kept as
\* the fraction [sum, count]; the matrix must not be empty
Mean(m) == [sum |-> SumFrom(m.data, 1), count |-> Size(m)]

\* the comma lists within the bounds: at least one value
Lists == SeqsUpTo(Scalar, MaxList) \ {<<>>}

\* a matrix of any shape and storage order, its coefficients not yet set
InitChecked ==
    /\ assertsOn \in BOOLEAN
    /\ InRoutine(1)
    /\ \E s \in Shapes, o \in {ColMajor, RowMajor} : \E d \in Uninit(s[1] * s[2]) :
           a = Constructed(s[1], s[2], o, d)
    /\ b = NoMat
    /\ c = NoMat
    /\ list = <<>>
    /\ res = NoRes
    /\ last = NoOp

\* Basics.cpp:39-40, 98-101, 114-115
CommaInit ==
    /\ pc = "demo" /\ last.op = "none"
    /\ \E s \in Lists :
           LET r == CommaInitialized(a, s)
           IN  /\ \E st \in Outcomes(r.ok) :
                      /\ res' = [status |-> st, value |-> NoMat]
                      /\ pc' = PcAfter(st)
               /\ a' = r.m
               /\ list' = s
    /\ last' = Op("comma", a.rows, a.cols, a)
    /\ UNCHANGED <<assertsOn, val, cin, called, b, c>>

\* Basics.cpp:82, for any run-time dimensions
ConstructFixedRows ==
    /\ pc = "demo" /\ last.op = "none"
    /\ \E row \in (-1)..MaxDim, col \in (-1)..(MaxSize \div FixedRows) :
           /\ \E st \in Outcomes(FixedRowsDimsOk(row, col)) :
                  /\ res' = [status |-> st, value |-> NoMat]
                  /\ pc' = PcAfter(st)
                  /\ IF st = "ok"
                     THEN \E d \in Uninit(FixedRows * col) :
                              a' = Constructed(FixedRows, col, ColMajor, d)
                     ELSE a' = a
           /\ last' = Op("construct", row, col, a)
    /\ UNCHANGED <<assertsOn, val, cin, called, b, c, list>>

\* Basics.cpp:35: reading matr(row, col)
CoeffAccess ==
    /\ pc = "demo" /\ last.op = "none"
    /\ \E row \in 0..MaxDim, col \in 0..MaxDim :
           /\ \E st \in Outcomes(InBounds(a, row, col)) :
                  /\ pc' = PcAfter(st)
                  /\ IF st = "ok"
                     THEN res' = [status |-> st, value |-> Coeff(a, row, col)]
                     ELSE \E g \in Scalar : res' = [status |-> st, value |-> g]
           /\ last' = Op("coeff", row, col, a)
    /\ UNCHANGED <<assertsOn, val, cin, called, a, b, c, list>>

\* Basics.cpp:172
TraceOf ==
    /\ pc = "demo" /\ last.op = "none"
    /\ res' = [status |-> "ok", value |-> Trace(a)]
    /\ last' = Op("trace", a.rows, a.cols, a)
    /\ UNCHANGED <<assertsOn, mainVars, a, b, c, list>>

\* Basics.cpp:169
MeanOf ==
    /\ pc = "demo" /\ last.op = "none"
    /\ \E st \in Outcomes(Size(a) > 0) :
           /\ res' = [status |-> st, value |-> Mean(a)]
           /\ pc' = PcAfter(st)
    /\ last' = Op("mean", a.rows, a.cols, a)
    /\ UNCHANGED <<assertsOn, val, cin, called, a, b, c, list>>

NextChecked ==
    \/ CommaInit
    \/ ConstructFixedRows
    \/ CoeffAccess
    \/ TraceOf
    \/ MeanOf

SpecChecked == InitChecked /\ [][NextChecked]_vars

\* C6 as claimed: a comma list of rows*cols values puts s[r*cols + c] at
\* (r, c) in either storage order, and a list of any other length fails.
C6_CommaListPlacedOrFails ==
    last.op = "comma" =>
        /\ Len(list) = last.oldRows * last.oldCols =>
               /\ res.status = "ok"
               /\ \A row \in 0..(a.rows - 1), col \in 0..(a.cols - 1) :
                      Coeff(a, row, col) = list[row * a.cols + col + 1]
        /\ Len(list) # last.oldRows * last.oldCols => res.status = "aborted"

\* C6 amended: the placement as claimed; a list of any other length aborts at
\* the statement when run-time assertions are enabled, and never ends well.
C6_CommaListPlacement ==
    last.op = "comma" =>
        /\ a.rows = last.oldRows /\ a.cols = last.oldCols
        /\ Len(list) = last.oldRows * last.oldCols =>
               /\ res.status = "ok"
               /\ \A row \in 0..(a.rows - 1), col \in 0..(a.cols - 1) :
                      Coeff(a, row, col) = list[row * a.cols + col + 1]
        /\ (Len(list) # last.oldRows * last.oldCols /\ assertsOn) =>
               (res.status = "aborted" /\ pc = "aborted")
        /\ Len(list) # last.oldRows * last.oldCols => res.status # "ok"

\* the list 0, 1, 0, 0 in a column-major 2x2 matrix: the 1 is at (0, 1),
\* the third place of the buffer
C6_Witness ==
    /\ last.op = "comma" /\ res.status = "ok"
    /\ a.order = ColMajor /\ a.rows = 2 /\ a.cols = 2
    /\ list = <<0, 1, 0, 0>>
    /\ a.data = <<0, 0, 1, 0>>

\* what the claim calls an invalid use, for the operation that last ran
InvalidUse ==
    CASE last.op = "comma" -> Len(list) # last.oldRows * last.oldCols
      [] last.op = "construct" ->
             last.rows # FixedRows \/ last.rows < 0 \/ last.cols < 0
      [] last.op = "coeff" -> last.rows >= last.oldRows \/ last.cols >= last.oldCols
      [] last.op = "trace" -> last.oldRows # last.oldCols
      [] last.op = "mean" -> last.oldRows * last.oldCols = 0
      [] OTHER -> FALSE

VisitRow(m, k) == k % m.rows
VisitCol(m, k) == k \div m.rows

\* a minimum that moves to a later coefficient of equal value
RECURSIVE MinVisitLast(_, _, _)
MinVisitLast(m, k, best) ==
    IF k >= Size(m) THEN best
    ELSE LET v == Coeff(m, VisitRow(m, k), VisitCol(m, k))
         IN  MinVisitLast(m, k + 1,
                 IF v <= best.coeff
                 THEN [coeff |-> v, row |-> VisitRow(m, k), col |-> VisitCol(m, k)]
                 ELSE best)
MinCoeffLastOccurrence(m) ==
    MinVisitLast(m, 1, [coeff |-> Coeff(m, 0, 0), row |-> 0, col |-> 0])

\* the visitor of minCoeff from position k of the visit on: a coefficient
\* replaces the best one only when it is strictly smaller
RECURSIVE MinVisit(_, _, _)
MinVisit(m, k, best) ==
    IF k >= Size(m) THEN best
    ELSE LET v == Coeff(m, VisitRow(m, k), VisitCol(m, k))
         IN  MinVisit(m, k + 1,
                 IF v < best.coeff
                 THEN [coeff |-> v, row |-> VisitRow(m, k), col |-> VisitCol(m, k)]
                 ELSE best)

\* the visitor of maxCoeff: strictly greater
RECURSIVE MaxVisit(_, _, _)
MaxVisit(m, k, best) ==
    IF k >= Size(m) THEN best
    ELSE LET v == Coeff(m, VisitRow(m, k), VisitCol(m, k))
         IN  MaxVisit(m, k + 1,
                 IF v > best.coeff
                 THEN [coeff |-> v, row |-> VisitRow(m, k), col |-> VisitCol(m, k)]
                 ELSE best)

\* `m.minCoeff(&i, &j)` (Basics.cpp:176): the visit starts from (0, 0)
MinCoeff(m) == MinVisit(m, 1, [coeff |-> Coeff(m, 0, 0), row |-> 0, col |-> 0])

\* `v.maxCoeff(&i)` (Basics.cpp:181)
MaxCoeff2D(m) == MaxVisit(m, 1, [coeff |-> Coeff(m, 0, 0), row |-> 0, col |-> 0])

\* the index a vector reports: the column of a row vector, else the row
FlatIndex(m, at) == IF m.rows = 1 THEN at.col ELSE at.row

\* The matrices reduced in reduction_ops: not empty, column-major (Matrix2d,
\* Matrix3f) or a row vector, which is stored row-major (RowVector4i).
Reducible ==
    {Mat(s[1], s[2], o, d) :
        s \in {t \in (1..MaxRedDim) \X (1..MaxRedDim) : t[1] * t[2] <= MaxRedSize},
        o \in {ColMajor, RowMajor},
        d \in UNION {[1..n -> 1..MaxCoeff] : n \in 1..MaxRedSize}}

InitReduce ==
    /\ assertsOn \in BOOLEAN
    /\ InRoutine(12)
    /\ a \in {m \in Reducible :
                 /\ Size(m) = m.rows * m.cols
                 /\ m.order = RowMajor => m.rows = 1}
    /\ b = NoMat
    /\ c = NoMat
    /\ list = <<>>
    /\ res = NoRes
    /\ last = NoOp

\* Basics.cpp:170, 176
MinCoeffOf ==
    /\ pc = "demo"
    /\ res' = [status |-> "ok", value |-> MinCoeff(a)]
    /\ last' = Op("minCoeff", a.rows, a.cols, a)
    /\ UNCHANGED <<assertsOn, mainVars, a, b, c, list>>

\* Basics.cpp:171, 181
MaxCoeffOf ==
    /\ pc = "demo"
    /\ res' = [status |-> "ok", value |-> MaxCoeff2D(a)]
    /\ last' = Op("maxCoeff", a.rows, a.cols, a)
    /\ UNCHANGED <<assertsOn, mainVars, a, b, c, list>>

NextReduce ==
    \/ MinCoeffOf
    \/ MaxCoeffOf

SpecReduce == InitReduce /\ [][NextReduce]_vars

\* the reported position holds the reported value, and no earlier place of
\* the buffer holds it
FirstInStorageOrder(at) ==
    /\ InBounds(a, at.row, at.col)
    /\ Coeff(a, at.row, at.col) = at.coeff
    /\ \A i \in 1..Size(a) :
           a.data[i] = at.coeff => Index(a.order, a.rows, a.cols, at.row, at.col) <= i
    /\ (a.rows = 1 \/ a.cols = 1) => a.data[FlatIndex(a, at) + 1] = at.coeff

Init ==
    /\ assertsOn \in BOOLEAN
    /\ InitMain
    /\ a = NoMat
    /\ b = NoMat
    /\ c = NoMat
    /\ list = <<>>
    /\ res = NoRes
    /\ last = NoOp

Next ==
    \/ Read
    \/ Dispatch
    \/ RunDemo

Spec == Init /\ [][Next]_vars

====
